---- MODULE Spec2Model ----
(***************************************************************************)
(* A model of toyparsing.py: a monadic parser-combinator library.  A       *)
(* Parser maps a cursor (the remaining input, a string) to a pair          *)
(* (value, new cursor) or to None.  Parser bodies call sub-parsers through *)
(* `run`, which threads the cursor held by the enclosing Parser call.      *)
(*                                                                         *)
(* Strings are sequences of one-character strings.  Python values are      *)
(* tagged records, so that None, "", [] and False stay distinct.           *)
(***************************************************************************)
EXTENDS Integers, Sequences, FiniteSets, TLC

VARIABLES parser, input, s, h, a, acc, pc, res, out, ranP, presented

vars == <<parser, input, s, h, a, acc, pc, res, out, ranP, presented>>

(***************************************************************************)
(* Python values                                                           *)
(***************************************************************************)
None == [t |-> "none"]

Str(cs) == [t |-> "str", chars |-> cs]

List(xs) == [t |-> "list", items |-> xs]

Bool(b) == [t |-> "bool", b |-> b]

(***************************************************************************)
(* String helpers: slicing and str.strip()                                 *)
(***************************************************************************)
Min(x, y) == IF x < y THEN x ELSE y

\* s[:n]
Take(cs, n) == SubSeq(cs, 1, Min(n, Len(cs)))

\* s[n:]
Drop(cs, n) == SubSeq(cs, Min(n, Len(cs)) + 1, Len(cs))

IsSpace(c) == c \in {" ", "\t", "\n"}

RECURSIVE LStrip(_)
LStrip(cs) == IF cs # <<>> /\ IsSpace(Head(cs)) THEN LStrip(Tail(cs)) ELSE cs

RECURSIVE RStrip(_)
RStrip(cs) ==
  IF cs # <<>> /\ IsSpace(cs[Len(cs)]) THEN RStrip(SubSeq(cs, 1, Len(cs) - 1)) ELSE cs

\* a strip that forgets the trailing whitespace
StripLeadingOnly(cs) == LStrip(cs)

\* str.strip(): leading and trailing whitespace removed
Strip(cs) == RStrip(LStrip(cs))

(***************************************************************************)
(* The regular expressions modelled are the character-class repetitions    *)
(* [C]+ : pat.match(s) matches the longest non-empty prefix of s made of   *)
(* characters of C.  MatchEnd is m.end(), or -1 when m is None.            *)
(***************************************************************************)
RECURSIVE PrefixLen(_, _)
PrefixLen(cls, cs) ==
  IF cs # <<>> /\ Head(cs) \in cls THEN 1 + PrefixLen(cls, Tail(cs)) ELSE 0

MatchEnd(cls, cs) == IF PrefixLen(cls, cs) = 0 THEN -1 ELSE PrefixLen(cls, cs)

Digits == {"0", "1", "2", "3", "4", "5", "6", "7", "8", "9"}

\* the length of the cursor snippet in a fatal message
SnippetLen == 16

(***************************************************************************)
(* Parsers, as syntax trees                                                *)
(***************************************************************************)
get == [kind |-> "get"]

put(cs) == [kind |-> "put", s |-> cs]

fail == [kind |-> "fail"]

unit(v) == [kind |-> "unit", a |-> v]

empty == unit(Str(<<>>))

pattern(cls) == [kind |-> "pattern", cls |-> cls]

word(pstr) == [kind |-> "word", pstr |-> pstr, pos |-> Len(pstr)]

And(self, p) == [kind |-> "and", self |-> self, p |-> p]

Or(self, p) == [kind |-> "or", self |-> self, p |-> p]

Rshift(self, p) == [kind |-> "rshift", self |-> self, p |-> p]

Lshift(self, p) == [kind |-> "lshift", self |-> self, p |-> p]

Gt(self, f) == [kind |-> "gt", self |-> self, f |-> f]

Bind(self, f) == [kind |-> "bind", self |-> self, f |-> f]

optional(p) == [kind |-> "optional", p |-> p]

\* the inner parser q of moreThan0(p)
StarQ(p) == [kind |-> "q", p |-> p]

moreThan0(p) == [kind |-> "moreThan0", p |-> p]

moreThan1(p) == [kind |-> "moreThan1", p |-> p]

sepBy(p, sep) == [kind |-> "sepBy", p |-> p, sep |-> sep]

peek(p) == [kind |-> "peek", p |-> p]

fatal(msg) == [kind |-> "fatal", msg |-> msg]

\* a client body  lambda run: run(p, throwable=True)
expect(p) == [kind |-> "expect", p |-> p]

\* the functions handed to > : lambda _: None  and  lambda x: [x]
ApplyF(f, v) == IF f = "const_none" THEN None ELSE List(<<v>>)

\* the function handed to bind:  lambda v: unit(v)
ApplyBindF(f, v) == unit(v)

(***************************************************************************)
(* Outcomes.  A Parser call yields Success, NoResult (Python None) or a    *)
(* raised ParserFailure.  A body, or a call of run, returns (Ret), or      *)
(* raises Nothing or ParserFailure; s is the cursor holder at that point.  *)
(***************************************************************************)
Success(v, cs) == [k |-> "ok", val |-> v, s |-> cs]

NoResult == [k |-> "None"]

Ret(v, cs) == [k |-> "ret", val |-> v, s |-> cs]

RaiseNothing(cs) == [k |-> "Nothing", s |-> cs]

RaiseParserFailure(msg, cs) == [k |-> "ParserFailure", msg |-> msg, s |-> cs]

\* the while loop of p_star did not end within LoopCap iterations
Diverged(cs) == [k |-> "diverged", s |-> cs]

\* the longest input of the model, and the cap on the iterations of p_star
Sample19 ==
  <<"1", "2", "3", "4", "5", "6", "7", "8", "9", "0", "1", "2", "3", "4", "5", "6", "7", "8", "9">>

LoopCap == Len(Sample19) + 1

\* v, evaluated once, handed to K
Let1(v, K(_)) == CHOOSE y \in {K(x) : x \in {v}} : TRUE

\* a statement of a body that calls run, then the rest K of the body: an
\* exception raised by run ends the body
Then(r, K(_)) == Let1(r, LAMBDA x : IF x.k = "ret" THEN K(x) ELSE x)

\* run, after r = m(s): the holder is replaced only when r is not None
RunOn(r, cs, nullable, throwable) ==
  IF r.k = "ok" THEN Ret(r.val, r.s)
  ELSE IF r.k = "None" THEN
    IF nullable THEN Ret(None, cs)
    ELSE IF throwable THEN RaiseParserFailure(<<>>, cs)
    ELSE RaiseNothing(cs)
  ELSE [r EXCEPT !.s = cs]

\* a call without the except clause
CatchNothingLeaks(r) == IF r.k = "ret" THEN Success(r.val, r.s) ELSE r

\* a call that catches every exception
CatchEverything(r) == IF r.k = "ret" THEN Success(r.val, r.s) ELSE NoResult

\* try: return (self.do_f(run), s)   except Nothing: return None
Catch(r) ==
  IF r.k = "ret" THEN Success(r.val, r.s)
  ELSE IF r.k = "Nothing" THEN NoResult
  ELSE r

\* the pairs of sepBy left as they are
ReduceAddKeepsPairs(xs) == xs

\* reduce(add, xs, [])
RECURSIVE ReduceAdd(_)
ReduceAdd(xs) == IF xs = <<>> THEN <<>> ELSE Head(xs).items \o ReduceAdd(Tail(xs))

RECURSIVE Call(_, _), Run(_, _, _, _), DoF(_, _), PStarLoop(_, _, _)

Run(m, cs, nullable, throwable) ==
  Let1(Call(m, cs), LAMBDA r : RunOn(r, cs, nullable, throwable))

\* one pass of the loop of p_star: b = run(q, nullable=True)
PStarB(p, cs) == Run(StarQ(p), cs, TRUE, FALSE)

PStarLoop(p, cs, xs) ==
  Then(PStarB(p, cs), LAMBDA b :
    IF b.val = None THEN Ret(List(xs), b.s)
    ELSE IF Len(xs) >= LoopCap THEN Diverged(b.s)
    ELSE PStarLoop(p, b.s, Append(xs, b.val)))

BodyUnit(P, cs) == Ret(P.a, cs)

BodyPattern(P, cs) ==
  Then(Run(get, cs, FALSE, FALSE), LAMBDA r1 :
    LET sv == Strip(r1.val.chars)
        m  == MatchEnd(P.cls, sv)
    IN IF m = -1
       THEN Then(Run(fail, r1.s, FALSE, FALSE), LAMBDA r2 : Ret(r2.val, r2.s))
       ELSE Then(Run(put(Drop(sv, m)), r1.s, FALSE, FALSE), LAMBDA r3 :
              Ret(Str(Take(sv, m)), r3.s)))

BodyWord(P, cs) ==
  Then(Run(get, cs, FALSE, FALSE), LAMBDA r1 :
    LET sv == Strip(r1.val.chars) IN
    IF Take(sv, P.pos) = P.pstr
    THEN Then(Run(put(Drop(sv, P.pos)), r1.s, FALSE, FALSE), LAMBDA r2 :
           Ret(Str(P.pstr), r2.s))
    ELSE Then(Run(fail, r1.s, FALSE, FALSE), LAMBDA r3 : Ret(r3.val, r3.s)))

\* an and-both that gives up on its second operand
BodyAndKeepsFirst(P, cs) ==
  Then(Run(P.self, cs, FALSE, FALSE), LAMBDA r1 :
  Then(Run(P.p, r1.s, TRUE, FALSE), LAMBDA r2 :
    IF r2.val = None THEN Ret(List(<<r1.val>>), r2.s)
    ELSE Ret(List(<<r1.val, r2.val>>), r2.s)))

BodyAnd(P, cs) ==
  Then(Run(P.self, cs, FALSE, FALSE), LAMBDA r1 :
  Then(Run(P.p, r1.s, FALSE, FALSE), LAMBDA r2 :
    Ret(List(<<r1.val, r2.val>>), r2.s)))

\* a = run(self, nullable=True)
OrRunSelf(P, cs) == Run(P.self, cs, TRUE, FALSE)

\* if a is not None
OrTakesSelf(v) == v # None

\* return run(p)
OrRunP(P, cs) == Run(P.p, cs, FALSE, FALSE)

BodyOr(P, cs) ==
  Then(OrRunSelf(P, cs), LAMBDA r1 :
    IF OrTakesSelf(r1.val) THEN Ret(r1.val, r1.s) ELSE OrRunP(P, r1.s))

BodyRshift(P, cs) ==
  Then(Run(P.self, cs, FALSE, FALSE), LAMBDA r1 :
    Run(P.p, r1.s, FALSE, FALSE))

BodyLshift(P, cs) ==
  Then(Run(P.self, cs, FALSE, FALSE), LAMBDA r1 :
  Then(Run(P.p, r1.s, FALSE, FALSE), LAMBDA r2 :
    Ret(r1.val, r2.s)))

BodyGt(P, cs) ==
  Then(Run(P.self, cs, FALSE, FALSE), LAMBDA r1 :
    Ret(ApplyF(P.f, r1.val), r1.s))

BodyBind(P, cs) ==
  Then(Run(P.self, cs, FALSE, FALSE), LAMBDA r1 :
    Run(ApplyBindF(P.f, r1.val), r1.s, FALSE, FALSE))

BodyOptional(P, cs) ==
  Then(Run(P.p, cs, TRUE, FALSE), LAMBDA r1 :
    Ret(IF r1.val = None THEN List(<<>>) ELSE List(<<r1.val>>), r1.s))

\* q without its guard
BodyStarQUnguarded(P, cs) ==
  Then(Run(get, cs, FALSE, FALSE), LAMBDA r1 :
  Then(Run(P.p, r1.s, FALSE, FALSE), LAMBDA r2 :
    Ret(r2.val, r2.s)))

\* q of moreThan0: the guard against matches that do not shorten the cursor
BodyStarQ(P, cs) ==
  Then(Run(get, cs, FALSE, FALSE), LAMBDA r1 :
  Then(Run(P.p, r1.s, FALSE, FALSE), LAMBDA r2 :
  Then(Run(get, r2.s, FALSE, FALSE), LAMBDA r3 :
    IF Len(r3.val.chars) < Len(r1.val.chars) THEN Ret(r2.val, r3.s)
    ELSE Then(Run(fail, r3.s, FALSE, FALSE), LAMBDA r4 : Ret(None, r4.s)))))

BodyMoreThan0(P, cs) == PStarLoop(P.p, cs, <<>>)

BodyMoreThan1(P, cs) ==
  Then(Run(P.p, cs, FALSE, FALSE), LAMBDA r1 :
  Then(Run(moreThan0(P.p), r1.s, FALSE, FALSE), LAMBDA r2 :
    Ret(List(<<r1.val>> \o r2.val.items), r2.s)))

BodySepBy(P, cs) ==
  Then(Run(P.p, cs, FALSE, FALSE), LAMBDA r1 :
  Then(Run(moreThan0(And(P.sep, P.p)), r1.s, FALSE, FALSE), LAMBDA r2 :
    Ret(List(<<r1.val>> \o ReduceAdd(r2.val.items)), r2.s)))

BodyPeek(P, cs) ==
  Then(Run(get, cs, FALSE, FALSE), LAMBDA r1 :
  Then(Run(P.p, r1.s, TRUE, FALSE), LAMBDA r2 :
    IF r2.val # None
    THEN Then(Run(put(r1.val.chars), r2.s, FALSE, FALSE), LAMBDA r3 :
           Ret(Bool(TRUE), r3.s))
    ELSE Ret(Bool(FALSE), r2.s)))

BodyFatal(P, cs) ==
  Then(Run(get, cs, FALSE, FALSE), LAMBDA r1 :
    RaiseParserFailure(P.msg \o <<":">> \o Take(r1.val.chars, SnippetLen), r1.s))

BodyExpect(P, cs) == Run(P.p, cs, FALSE, TRUE)

\* self.do_f(run), with the holder starting at cs
DoF(P, cs) ==
  CASE P.kind = "unit" -> BodyUnit(P, cs)
    [] P.kind = "pattern" -> BodyPattern(P, cs)
    [] P.kind = "word" -> BodyWord(P, cs)
    [] P.kind = "and" -> BodyAnd(P, cs)
    [] P.kind = "or" -> BodyOr(P, cs)
    [] P.kind = "rshift" -> BodyRshift(P, cs)
    [] P.kind = "lshift" -> BodyLshift(P, cs)
    [] P.kind = "gt" -> BodyGt(P, cs)
    [] P.kind = "bind" -> BodyBind(P, cs)
    [] P.kind = "optional" -> BodyOptional(P, cs)
    [] P.kind = "q" -> BodyStarQ(P, cs)
    [] P.kind = "moreThan0" -> BodyMoreThan0(P, cs)
    [] P.kind = "moreThan1" -> BodyMoreThan1(P, cs)
    [] P.kind = "sepBy" -> BodySepBy(P, cs)
    [] P.kind = "peek" -> BodyPeek(P, cs)
    [] P.kind = "fatal" -> BodyFatal(P, cs)
    [] P.kind = "expect" -> BodyExpect(P, cs)

\* Parser.__call__
ParserCall(P, cs) == Let1(DoF(P, cs), Catch)

\* Get.__call__
GetCall(P, cs) == Success(Str(cs), cs)

\* put.__call__
PutCall(P, cs) == Success(Str(P.s), P.s)

\* Fail.__call__
FailCall(P, cs) == NoResult

\* m(s), dispatched on the class of m
Call(P, cs) ==
  CASE P.kind = "get" -> GetCall(P, cs)
    [] P.kind = "put" -> PutCall(P, cs)
    [] P.kind = "fail" -> FailCall(P, cs)
    [] OTHER -> ParserCall(P, cs)

(***************************************************************************)
(* The inputs and the parsers of the model                                 *)
(***************************************************************************)
\* the longest cursor drawn from the whole alphabet
MaxLen == 2

Alphabet == {"1", ",", " "}

RECURSIVE StringsOf(_)
StringsOf(n) ==
  IF n = 0 THEN {<<>>}
  ELSE StringsOf(n - 1) \cup
       {Append(cs, c) : cs \in {x \in StringsOf(n - 1) : Len(x) = n - 1}, c \in Alphabet}

Samples ==
  { <<"1", ",", "1", ",", "1">>, <<"1", ",", "1", ",">>, <<"1", " ", ",", "1", " ", ",">>,
    <<" ", " ", "i", "f", " ", "x">>, <<"i", "f", "f", "y">>, <<" ", "i", " ">>,
    Sample19, Take(Sample19, SnippetLen), Take(Sample19, SnippetLen + 1) }

Inputs == StringsOf(MaxLen) \cup Samples

Leaves ==
  {fail, unit(None), word(<<"1">>), word(<<",">>), pattern(Digits), fatal(<<"m">>)}

Unary(S) ==
  {optional(p) : p \in S} \cup {moreThan0(p) : p \in S} \cup {moreThan1(p) : p \in S}
    \cup {peek(p) : p \in S} \cup {expect(p) : p \in S}
    \cup {Gt(p, "const_none") : p \in S} \cup {Gt(p, "singleton") : p \in S}
    \cup {Bind(p, "unit") : p \in S}

Binary(S, T) ==
  {And(p, q) : p \in S, q \in T} \cup {Or(p, q) : p \in S, q \in T}
    \cup {Rshift(p, q) : p \in S, q \in T} \cup {Lshift(p, q) : p \in S, q \in T}
    \cup {sepBy(p, q) : p \in S, q \in T}

\* the operands of the parsers under test
Operands == Leaves \cup Unary(Leaves) \cup Binary(Leaves, Leaves)

\* primitives that are under test but are no operands
Primitives ==
  { get, put(<<"1", "1">>), empty, word(<<>>), word(<<"i", "f">>), word(<<"1", ",">>),
    word(<<" ">>), word(<<" ", "1">>) }

Parsers == Primitives \cup Operands \cup Unary(Operands) \cup Binary(Operands, Leaves)

(***************************************************************************)
(* The state machine.  A client body holds the cursor s and calls          *)
(* run(parser) on it once, for a parser and an input of its choice.  The   *)
(* calls of or-alternative and of moreThan0 are followed step by step,     *)
(* with h the holder of that call.                                         *)
(***************************************************************************)
Pending == [k |-> "pending"]

Init ==
  /\ parser = fail
  /\ input = <<>>
  /\ s = <<>>
  /\ h = <<>>
  /\ a = None
  /\ acc = <<>>
  /\ pc = "idle"
  /\ res = Pending
  /\ out = Pending
  /\ ranP = FALSE
  /\ presented = <<>>

Of(kind) == {P \in Parsers : P.kind = kind}

\* the client takes parser P and the cursor cs
Start(P, cs) ==
  /\ parser' = P
  /\ input' = cs

\* the call parser(cs) ends with r; the client's run takes it
Return(r, cs) ==
  \E nullable \in BOOLEAN :
    /\ res' = r
    /\ out' = RunOn(r, cs, nullable, FALSE)
    /\ s' = out'.s
    /\ pc' = "done"

Invoke(kind) ==
  /\ pc = "idle"
  /\ \E P \in Of(kind), cs \in Inputs :
       /\ Start(P, cs)
       /\ \E r \in {Call(P, cs)} : Return(r, cs)
       /\ UNCHANGED <<h, a, acc, ranP, presented>>

CallGet == Invoke("get")

CallPut == Invoke("put")

CallFail == Invoke("fail")

CallUnit == Invoke("unit")

CallPattern == Invoke("pattern")

CallWord == Invoke("word")

CallAnd == Invoke("and")

CallRshift == Invoke("rshift")

CallLshift == Invoke("lshift")

CallGt == Invoke("gt")

CallBind == Invoke("bind")

CallOptional == Invoke("optional")

CallMoreThan1 == Invoke("moreThan1")

CallSepBy == Invoke("sepBy")

CallPeek == Invoke("peek")

CallFatal == Invoke("fatal")

CallExpect == Invoke("expect")

\* self_or_p:  a = run(self, nullable=True)
OrSelf ==
  /\ pc = "idle"
  /\ \E P \in Of("or"), cs \in Inputs :
       /\ Start(P, cs)
       /\ \E r1 \in {OrRunSelf(P, cs)} :
            /\ r1.k = "ret"
            /\ a' = r1.val
            /\ h' = r1.s
       /\ s' = cs
       /\ pc' = "or_test"
       /\ UNCHANGED <<acc, res, out, ranP, presented>>

\* self_or_p:  run(self, nullable=True) raises
OrSelfRaises ==
  /\ pc = "idle"
  /\ \E P \in Of("or"), cs \in Inputs :
       /\ Start(P, cs)
       /\ \E r1 \in {OrRunSelf(P, cs)} :
            /\ r1.k # "ret"
            /\ \E r \in {Catch(r1)} : Return(r, cs)
       /\ UNCHANGED <<h, a, acc, ranP, presented>>

\* self_or_p:  if a is not None: return a
OrReturnA ==
  /\ pc = "or_test"
  /\ OrTakesSelf(a)
  /\ \E r \in {Catch(Ret(a, h))} : Return(r, s)
  /\ UNCHANGED <<parser, input, h, a, acc, ranP, presented>>

\* self_or_p:  return run(p)
OrP ==
  /\ pc = "or_test"
  /\ ~OrTakesSelf(a)
  /\ ranP' = TRUE
  /\ presented' = h
  /\ \E r1 \in {OrRunP(parser, h)} : \E r \in {Catch(r1)} : Return(r, s)
  /\ UNCHANGED <<parser, input, h, a, acc>>

\* p_star:  a = []
PStarEnter ==
  /\ pc = "idle"
  /\ \E P \in Of("moreThan0"), cs \in Inputs :
       /\ Start(P, cs)
       /\ s' = cs
       /\ h' = cs
       /\ acc' = <<>>
       /\ pc' = "loop"
       /\ UNCHANGED <<a, res, out, ranP, presented>>

\* p_star:  b = run(q, nullable=True); a.append(b)
PStarAppend ==
  /\ pc = "loop"
  /\ Len(acc) < LoopCap
  /\ \E b \in {PStarB(parser.p, h)} :
       /\ b.k = "ret"
       /\ b.val # None
       /\ acc' = Append(acc, b.val)
       /\ h' = b.s
  /\ UNCHANGED <<parser, input, s, a, pc, res, out, ranP, presented>>

\* p_star:  b = run(q, nullable=True); if b is None: break; return a
PStarBreak ==
  /\ pc = "loop"
  /\ \E b \in {PStarB(parser.p, h)} :
       /\ b.k = "ret"
       /\ b.val = None
       /\ \E r \in {Catch(Ret(List(acc), b.s))} : Return(r, s)
  /\ UNCHANGED <<parser, input, h, a, acc, ranP, presented>>

\* p_star:  run(q, nullable=True) raises
PStarRaises ==
  /\ pc = "loop"
  /\ \E b \in {PStarB(parser.p, h)} :
       /\ b.k # "ret"
       /\ \E r \in {Catch(b)} : Return(r, s)
  /\ UNCHANGED <<parser, input, h, a, acc, ranP, presented>>

Next ==
  \/ CallGet
  \/ CallPut
  \/ CallFail
  \/ CallUnit
  \/ CallPattern
  \/ CallWord
  \/ CallAnd
  \/ CallRshift
  \/ CallLshift
  \/ CallGt
  \/ CallBind
  \/ CallOptional
  \/ CallMoreThan1
  \/ CallSepBy
  \/ CallPeek
  \/ CallFatal
  \/ CallExpect
  \/ OrSelf
  \/ OrSelfRaises
  \/ OrReturnA
  \/ OrP
  \/ PStarEnter
  \/ PStarAppend
  \/ PStarBreak
  \/ PStarRaises

Spec == Init /\ [][Next]_vars

\* the calls of moreThan0 alone; a call, once started, runs on
NextStar ==
  \/ PStarEnter
  \/ PStarAppend
  \/ PStarBreak
  \/ PStarRaises

SpecStar == Init /\ [][NextStar]_vars /\ WF_vars(NextStar)

\* the stepped calls agree with the call taken at once
SteppedAgrees == pc = "done" => res = Call(parser, input)

(***************************************************************************)
(* Properties                                                              *)
(***************************************************************************)
Done == pc = "done"

Fatal == "ParserFailure"

\* the first n characters of cs, all of cs when it has fewer
FirstChars(cs, n) == IF Len(cs) < n THEN cs ELSE SubSeq(cs, 1, n)

\* cs without its leading and trailing whitespace: the part cs[i..j] that
\* neither starts nor ends with whitespace and has only whitespace around it
Stripped(cs) ==
  CHOOSE t \in {SubSeq(cs, i, j) : i \in 1..(Len(cs) + 1), j \in 0..Len(cs)} :
    \E i \in 1..(Len(cs) + 1), j \in 0..Len(cs) :
      /\ t = SubSeq(cs, i, j)
      /\ \A k \in 1..Len(cs) : (k < i \/ k > j) => IsSpace(cs[k])
      /\ i <= j => (~IsSpace(cs[i]) /\ ~IsSpace(cs[j]))

Sequencing == {"and", "rshift", "lshift"}

WithSelf == {"and", "or", "rshift", "lshift", "gt", "bind"}

WithP == {"optional", "moreThan0", "moreThan1", "peek", "expect", "sepBy"}

\* the operand a combinator runs first
FirstOperand(P) == IF P.kind \in WithSelf THEN P.self ELSE P.p

\* the operand a two-operand combinator runs second
SecondOperand(P) == IF P.kind = "sepBy" THEN P.sep ELSE P.p

\* C1: a parser that does not match returns the no-result indicator, the
\* internal failure signal never reaches its caller, and the caller's cursor
\* is what it was before the call, also when a sequence fails on its second
\* operand after its first one consumed input.
C1_FailureIsAtomic ==
  Done =>
    /\ res.k \in {"ok", "None", Fatal}
    /\ res.k = "None" => s = input /\ out \in {Ret(None, input), RaiseNothing(input)}
    /\ parser.kind \in Sequencing =>
         LET f == Call(parser.self, input) IN
           /\ f.k = "None" => res = NoResult
           /\ (f.k = "ok" /\ Call(parser.p, f.s).k = "None") => res = NoResult

C1_Witness ==
  /\ Done
  /\ parser.kind = "and"
  /\ Call(parser.self, input).k = "ok"
  /\ Call(parser.self, input).s # input
  /\ res = NoResult
  /\ s = input

\* C2: in (a | b) on cursor s, b runs only when a failed on s, and then on
\* exactly s; when a succeeds with (v, s') the result is (v, s') and b does
\* not run.
C2_OrAlternative ==
  (Done /\ parser.kind = "or") =>
    LET l == Call(parser.self, input) IN
      /\ ranP => (l.k = "None" /\ presented = input)
      /\ l.k = "ok" => (res = l /\ ~ranP)

\* C3: a fatal failure reaches the top-level caller from any combinator: the
\* message of fatal(msg) is msg, ":" and the first 16 characters of the
\* cursor, a fatal failure of an operand that is run is the failure of the
\* whole call, and run with throwable=true on a failing parser is fatal.
C3_FatalPropagates ==
  Done =>
    /\ parser.kind = "fatal" =>
         (res.k = Fatal /\ res.msg = parser.msg \o <<":">> \o FirstChars(input, 16))
    /\ (parser.kind = "expect" /\ Call(parser.p, input).k = "None") => res.k = Fatal
    /\ parser.kind \in (WithSelf \cup WithP) =>
         LET f == Call(FirstOperand(parser), input) IN
           f.k = Fatal => (res.k = Fatal /\ res.msg = f.msg)
    /\ parser.kind \in (Sequencing \cup {"sepBy"}) =>
         LET f == Call(FirstOperand(parser), input)
             q == SecondOperand(parser)
         IN f.k = "ok" =>
              LET g == Call(q, f.s) IN
                /\ g.k = Fatal => (res.k = Fatal /\ res.msg = g.msg)
                /\ q.kind = "fatal" =>
                     (res.k = Fatal /\ res.msg = q.msg \o <<":">> \o FirstChars(f.s, 16))
    /\ parser.kind = "or" =>
         LET f == Call(parser.self, input)
             g == Call(parser.p, input)
         IN (f.k = "None" /\ g.k = Fatal) => (res.k = Fatal /\ res.msg = g.msg)
    /\ res.k = Fatal => (out.k = Fatal /\ out.msg = res.msg)

C3_Witness ==
  /\ Done
  /\ parser.kind = "or"
  /\ parser.self.kind = "optional"
  /\ input = Sample19
  /\ res.k = Fatal
  /\ res.msg = <<"m", ":">> \o Take(Sample19, 16)
  /\ out.k = Fatal

\* C4: a call of moreThan0(p) ends, with a list of at most len(input) values
\* unless p raised a fatal failure, and every pass of the loop that
\* accumulates a value shortens the cursor.
C4_StarTerminates ==
  /\ [][(pc = "loop" /\ pc' = "loop") => Len(h') < Len(h)]_vars
  /\ <>(Done /\ (res.k = Fatal
                   \/ (res.k = "ok" /\ res.val.t = "list"
                         /\ Len(res.val.items) <= Len(input))))

C4_Witness ==
  /\ Done
  /\ parser = moreThan0(optional(word(<<"1">>)))
  /\ input = <<"1", "1">>
  /\ res = Success(List(<<List(<<Str(<<"1">>)>>), List(<<Str(<<"1">>)>>)>>), <<>>)

\* C5: peek(p), when p raises no fatal failure, succeeds with the cursor it
\* was given, and with True exactly when p succeeds on that cursor.
C5_PeekNeverConsumes ==
  (Done /\ parser.kind = "peek") =>
    LET l == Call(parser.p, input) IN
      l.k \in {"ok", "None"} => res = Success(Bool(l.k = "ok"), input)

\* C6: optional(p), when p raises no fatal failure, succeeds with [v] and
\* p's leftover cursor when p succeeds with v, and with [] otherwise; when it
\* returns [] the cursor is the one it was given.
C6_OptionalNeverFails ==
  (Done /\ parser.kind = "optional") =>
    LET l == Call(parser.p, input) IN
      /\ l.k = "ok" => res = Success(List(<<l.val>>), l.s)
      /\ l.k = "None" => res = Success(List(<<>>), input)
      /\ (res.k = "ok" /\ res.val = List(<<>>)) => res.s = input

\* xs is sep, p, sep, p, ... as parsed from cs on; the cursor after the last
RECURSIVE Walk(_, _, _, _)
Walk(p, sep, xs, cs) ==
  IF xs = <<>> THEN [ok |-> TRUE, s |-> cs]
  ELSE IF Len(xs) < 2 THEN [ok |-> FALSE, s |-> cs]
  ELSE LET sr == Call(sep, cs) IN
       IF sr.k # "ok" \/ sr.val # xs[1] THEN [ok |-> FALSE, s |-> cs]
       ELSE LET pr == Call(p, sr.s) IN
            IF pr.k # "ok" \/ pr.val # xs[2] THEN [ok |-> FALSE, s |-> cs]
            ELSE Walk(p, sep, SubSeq(xs, 3, Len(xs)), pr.s)

\* C7: sepBy(p, sep) fails exactly when the first p fails, the cursor then
\* unchanged; otherwise its value is the list p1, sep1, p2, ..., pn of odd
\* length: the values of p and of sep as parsed in turn from the input, and
\* its leftover cursor is the one after pn.
C7_SepByInterleaves ==
  (Done /\ parser.kind = "sepBy") =>
    LET f == Call(parser.p, input) IN
      /\ f.k = "None" <=> res.k = "None"
      /\ res.k = "None" => s = input
      /\ f.k = "ok" => res.k \in {"ok", Fatal}
      /\ res.k = "ok" =>
           /\ res.val.t = "list"
           /\ Len(res.val.items) % 2 = 1
           /\ Head(res.val.items) = f.val
           /\ Walk(parser.p, parser.sep, Tail(res.val.items), f.s) = [ok |-> TRUE, s |-> res.s]

C7_Witness ==
  /\ Done
  /\ parser = sepBy(pattern(Digits), word(<<",">>))
  /\ input = <<"1", ",", "1", ",", "1">>
  /\ res = Success(List(<<Str(<<"1">>), Str(<<",">>), Str(<<"1">>), Str(<<",">>), Str(<<"1">>)>>), <<>>)

\* C8: word(literal) of length L on cursor c, with t = c stripped: when the
\* first L characters of t are literal it returns literal and leaves t[L:];
\* otherwise it fails and the cursor stays c.
C8_Word ==
  (Done /\ parser.kind = "word") =>
    LET t == Stripped(input)
        L == Len(parser.pstr)
    IN IF Len(t) >= L /\ SubSeq(t, 1, L) = parser.pstr
       THEN res = Success(Str(parser.pstr), SubSeq(t, L + 1, Len(t))) /\ s = res.s
       ELSE res = NoResult /\ s = input

C8_Witness ==
  /\ Done
  /\ parser = word(<<"i", "f">>)
  /\ input = <<" ", " ", "i", "f", " ", "x">>
  /\ res = Success(Str(<<"i", "f">>), <<" ", "x">>)
  /\ s = <<" ", "x">>

\* the longest run of matches of p from cs on that each shorten the cursor
RECURSIVE LongestRun(_, _)
LongestRun(p, cs) ==
  LET r == Call(p, cs) IN
  IF r.k = "ok" /\ Len(r.s) < Len(cs)
  THEN LET rest == LongestRun(p, r.s) IN [vals |-> <<r.val>> \o rest.vals, s |-> rest.s]
  ELSE [vals |-> <<>>, s |-> cs]

\* C9: moreThan0(p) returns the values of the longest run of consecutive
\* matches of p that shorten the cursor, and its leftover cursor is the one
\* after the last of these values.
C9_StarLongestRun ==
  (Done /\ parser.kind = "moreThan0" /\ res.k = "ok") =>
    LET run == LongestRun(parser.p, input) IN
      /\ res.val = List(run.vals)
      /\ res.s = run.s

\* the matches sep, p, sep, p, ... from cs on, after n matches of p: the cursor
\* after the last p, the number of p, and whether the chain ends with a
\* sep that matches and a p that fails
RECURSIVE Chain(_, _, _, _)
Chain(p, sep, cs, n) ==
  LET t == Call(sep, cs) IN
  IF t.k # "ok" THEN [s |-> cs, n |-> n, trailing |-> FALSE]
  ELSE LET q == Call(p, t.s) IN
       IF q.k = "ok" /\ Len(q.s) < Len(cs) THEN Chain(p, sep, q.s, n + 1)
       ELSE [s |-> cs, n |-> n, trailing |-> q.k = "None"]

\* C10: when, after the last p of sepBy(p, sep), sep matches and the p after
\* it fails, the leftover cursor is the one after that last p: the separator
\* still matches on it, and its value is not in the result.
C10_SepByTrailingSeparator ==
  (Done /\ parser.kind = "sepBy") =>
    LET f == Call(parser.p, input) IN
      f.k = "ok" =>
        LET c == Chain(parser.p, parser.sep, f.s, 1) IN
          c.trailing =>
            /\ res.k = "ok"
            /\ res.s = c.s
            /\ Len(res.val.items) = 2 * c.n - 1
            /\ Call(parser.sep, res.s).k = "ok"

C10_Witness ==
  /\ Done
  /\ parser = sepBy(pattern(Digits), word(<<",">>))
  /\ input = <<"1", " ", ",", "1", " ", ",">>
  /\ res = Success(List(<<Str(<<"1">>), Str(<<",">>), Str(<<"1">>)>>), <<" ", ",">>)

====
